---- MODULE Spec2Model ----
(***************************************************************************)
(* Model of the flashcard pipeline orchestrator (_run_pipeline in          *)
(* lambda_function.py) and of the four stage agents (agents.py).           *)
(*                                                                         *)
(* Python values are modelled as records tagged with a "kind" field:       *)
(*   [kind |-> "str"]                 a string (raw model output)         *)
(*   [kind |-> "dict", d |-> r]       a dict whose items are the record r *)
(*   [kind |-> "list", ...]           a list                              *)
(* Texts are sequences of characters, so that len() is Len.                *)
(*                                                                         *)
(* Specifications.  SpecRun is _run_pipeline from its entry (agent         *)
(* construction, lines 155-187) as called by lambda_function.  Spec is the *)
(* body of _run_pipeline from line 189 on, started in the state in which   *)
(* the four agents exist.  SpecAgent applies one agent's run() to one      *)
(* backend response.  SpecExtract applies _extract_json_from_text to one   *)
(* text.  SpecPersist is the persistence part of _run_pipeline (lines      *)
(* 340-401) over runs executed one after another on the same tables.       *)
(* SpecDoc applies extract_text_from_binary (utils.py) to one manifest.    *)
(* SpecRepair applies basic_json_repair (pydantic_formatting.py) to one    *)
(* text.  SpecRace is lines 340-356 of two runs whose requests to the      *)
(* sources table interleave.                                               *)
(***************************************************************************)
EXTENDS Integers, Sequences, FiniteSets, TLC

(* ------------------------------ bounds -------------------------------- *)
MaxSegs == 2
MaxCards == 5
MaxRejected == 4
MaxAccepted == 2

(* --------------------------- program constants ------------------------ *)
ROLE_CHUNKER == 6
ROLE_OUTLINE == 9
ROLE_GENERATOR == 7
ROLE_QA == 8
FeedbackSample == 5

(* rejected_count / max(1, len(candidate_cards)) > 0.3, as a comparison of
   integers: r / c > 3 / 10  <=>  10 * r > 3 * c  (c >= 1). *)
ThresholdNum == 3
ThresholdDen == 10

(* ------------------------------ inputs -------------------------------- *)
Texts == {<<>>, <<"a", "b", "c">>}
UserIds == {"u1"}
NoDeck == [kind |-> "none"]
DeckIds == {NoDeck, [kind |-> "given", id |-> 1]}

None == [kind |-> "none"]
NoErr == [kind |-> "none"]

(* --------------------------- small helpers ---------------------------- *)
Max(a, b) == IF a >= b THEN a ELSE b
Min(a, b) == IF a <= b THEN a ELSE b

(* list[:n] *)
Take(s, n) == SubSeq(s, 1, Min(n, Len(s)))

IsDict(v) == v.kind = "dict"
IsList(v) == v.kind = "list"

(* dict.get(key, default) on the items record of a dict *)
Get(d, key, default) == IF key \in DOMAIN d THEN d[key] ELSE default

(* sha256(input_text.encode("utf-8")).hexdigest(): a function of the text,
   taken to be collision free *)
Sha256(t) == <<"sha256", t>>

(* -------------------- python values and truthiness -------------------- *)
EmptyDict == [kind |-> "dict", d |-> <<>>]
RawText == [kind |-> "str"]

(* bool(v) for the values a stage can obtain from the extractor *)
Truthy(v) ==
    CASE v.kind = "none" -> FALSE
      [] v.kind = "dict" -> DOMAIN v.d # {}
      [] v.kind = "list" -> Len(v.items) > 0
      [] OTHER -> TRUE

(* _ensure_list(obj, key): obj.get(key, []) when that is a list, else [].
   Lists that are dict items are [kind |-> "list", items |-> <<...>>];
   the result is the plain sequence of items. *)
EnsureList(obj, key) ==
    LET v == Get(obj.d, key, [kind |-> "list", items |-> <<>>])
    IN  IF IsList(v) THEN v.items ELSE <<>>

(* ------------------------- backend responses -------------------------- *)
(* A response of client.responses.create: the call raises (fail), or it
   returns a response that carries usage counters or not, whose output text
   the extractor parses to json (None when no strategy parses it). *)
BackendError(role) == [kind |-> "BackendError", role |-> role]
AttributeError(what) == [kind |-> "AttributeError", what |-> what]
ValueError(what) == [kind |-> "ValueError", what |-> what]
LogError(role) == [kind |-> "LogError", role |-> role]
DbError(table) == [kind |-> "DbError", table |-> table]

InputTokens == 11
OutputTokens == 22

Failed == [fail |-> TRUE, usage |-> FALSE, json |-> None]
NoUsage == [fail |-> FALSE, usage |-> FALSE, json |-> None]
Answer(json) == [fail |-> FALSE, usage |-> TRUE, json |-> json]

(* OpenAIAgent.log_automated_suggestions: the row inserted in the usage table *)
UsageRow(user, content, role, tokens) ==
    [user_id |-> user, content |-> content,
     token_count |-> tokens, system_role_id |-> role]

TextOf(role) == [kind |-> "text", of |-> role]

(* The shared body with json.loads called outside the extractor's try
   blocks: an output that does not parse raises *)
ParsedOrTextParseRaises(role, user, message, resp, fault) ==
    IF resp.fail THEN
        [exc |-> BackendError(role), ret |-> None, rows |-> <<>>]
    ELSE IF ~resp.usage THEN
        [exc |-> AttributeError("usage"), ret |-> None, rows |-> <<>>]
    ELSE IF fault = "in" THEN
        [exc |-> LogError(role), ret |-> None, rows |-> <<>>]
    ELSE
        LET inRow == UsageRow(user, message, role, InputTokens)
        IN  IF resp.json = None THEN
                [exc |-> ValueError("json"), ret |-> None, rows |-> <<inRow>>]
            ELSE IF fault = "out" THEN
                [exc |-> NoErr, ret |-> EmptyDict, rows |-> <<inRow>>]
            ELSE
                [exc |-> NoErr,
                 ret |-> IF Truthy(resp.json) THEN resp.json ELSE RawText,
                 rows |-> <<inRow,
                            UsageRow(user, TextOf(role), role, OutputTokens)>>]

(* What the three agents that return "parsed if parsed else full_text"
   return (ChunkSplitterAgent.run, ContentInstructionAgent.run,
   FlashcardQualityAgent.run share the body).  fault names the usage-log
   write that fails: "none", "in" or "out".
   Result: exc (the exception run() raises, NoErr when it returns), ret (the
   value returned) and rows (the usage rows written, in order). *)
ParsedOrText(role, user, message, resp, fault) ==
    IF resp.fail THEN
        [exc |-> BackendError(role), ret |-> None, rows |-> <<>>]
    ELSE IF ~resp.usage THEN
        [exc |-> AttributeError("usage"), ret |-> None, rows |-> <<>>]
    ELSE IF fault = "in" THEN
        [exc |-> LogError(role), ret |-> None, rows |-> <<>>]
    ELSE
        LET inRow == UsageRow(user, message, role, InputTokens)
            parsed == resp.json
        IN  IF fault = "out" THEN
                [exc |-> NoErr, ret |-> EmptyDict, rows |-> <<inRow>>]
            ELSE
                [exc |-> NoErr,
                 ret |-> IF Truthy(parsed) THEN parsed ELSE RawText,
                 rows |-> <<inRow,
                            UsageRow(user, TextOf(role), role, OutputTokens)>>]

ChunkerRun(user, message, resp, fault) ==
    ParsedOrText(ROLE_CHUNKER, user, message, resp, fault)

OutlineRun(user, message, resp, fault) ==
    ParsedOrText(ROLE_OUTLINE, user, message, resp, fault)

QualityRun(user, message, resp, fault) ==
    ParsedOrText(ROLE_QA, user, message, resp, fault)

(* FlashcardGeneratorAgent.run with the backend call inside the try block:
   a failed call is answered by {} *)
GeneratorRunCatchesBackend(user, message, resp, fault) ==
    IF resp.fail \/ ~resp.usage THEN
        [exc |-> NoErr, ret |-> EmptyDict, rows |-> <<>>]
    ELSE IF fault = "in" THEN
        [exc |-> LogError(ROLE_GENERATOR), ret |-> None, rows |-> <<>>]
    ELSE
        LET inRow == UsageRow(user, message, ROLE_GENERATOR, InputTokens)
        IN  IF fault = "out" THEN
                [exc |-> NoErr, ret |-> EmptyDict, rows |-> <<inRow>>]
            ELSE
                [exc |-> NoErr,
                 ret |-> IF resp.json.kind = "none" THEN EmptyDict ELSE resp.json,
                 rows |-> <<inRow,
                            UsageRow(user, TextOf(ROLE_GENERATOR),
                                     ROLE_GENERATOR, OutputTokens)>>]

(* FlashcardGeneratorAgent.run: {} when nothing parses, else the parsed
   value whatever it is. *)
GeneratorRun(user, message, resp, fault) ==
    IF resp.fail THEN
        [exc |-> BackendError(ROLE_GENERATOR), ret |-> None, rows |-> <<>>]
    ELSE IF ~resp.usage THEN
        [exc |-> AttributeError("usage"), ret |-> None, rows |-> <<>>]
    ELSE IF fault = "in" THEN
        [exc |-> LogError(ROLE_GENERATOR), ret |-> None, rows |-> <<>>]
    ELSE
        LET inRow == UsageRow(user, message, ROLE_GENERATOR, InputTokens)
        IN  IF fault = "out" THEN
                [exc |-> NoErr, ret |-> EmptyDict, rows |-> <<inRow>>]
            ELSE
                [exc |-> NoErr,
                 ret |-> IF resp.json.kind = "none" THEN EmptyDict ELSE resp.json,
                 rows |-> <<inRow,
                            UsageRow(user, TextOf(ROLE_GENERATOR),
                                     ROLE_GENERATOR, OutputTokens)>>]

(* ------------------ what the generation backend answers --------------- *)
List(items) == [kind |-> "list", items |-> items]
Dict(d) == [kind |-> "dict", d |-> d]
Num(n) == [kind |-> "int", v |-> n]

(* The usage-log write of a stage that fails: none, the one of the input
   side or the one of the output side.  At most one write fails in a run. *)
LogFaults(seen) == IF seen THEN {"none"} ELSE {"none", "in", "out"}

(* A segment as the Segmenter returns it: the i-th of the document *)
Segment(i, t) ==
    Dict([index |-> i - 1,
          span |-> [start |-> i - 1, end |-> i],
          text |-> SubSeq(t, i, Min(i, Len(t)))])

(* A segment dict that lacks index, span and text *)
BareSegment == Dict([title |-> "t"])

ChunkerJsons(t) ==
    {None,
     Dict([doc_stats |-> "s"]),
     Dict([chunks |-> List(<<>>)]),
     Dict([chunks |-> RawText]),
     Dict([chunks |-> List(<<BareSegment>>)])}
    \cup {Dict([chunks |-> List([i \in 1..n |-> Segment(i, t)])]) : n \in 1..MaxSegs}

ChunkerResponses(t) == {Failed, NoUsage} \cup {Answer(j) : j \in ChunkerJsons(t)}

OutlineResponses == {Failed, NoUsage, Answer(None)}

(* Candidate cards: the n-th card of the call-th Card-Generator call *)
Card(call, n) == [src |-> "gen", call |-> call, n |-> n]

GenCounts == {0, MaxCards}

GeneratorJsons(call) ==
    {None, Dict([estimated_total_for_chunk |-> 0])}
    \cup {Dict([cards |-> List([n \in 1..k |-> Card(call, n)])]) : k \in GenCounts}
    \cup {List(<<Dict([cards |-> List(<<Card(call, 1)>>)]),
                 Dict([estimated_total_for_chunk |-> 0]),
                 Dict([cards |-> List([n \in 1..(MaxCards - 1) |->
                                          Card(call, n + 1)])])>>)}

GeneratorResponses(call) ==
    {Failed, NoUsage} \cup {Answer(j) : j \in GeneratorJsons(call)}

(* The front text of the n-th accepted card of a review: texts are sequences
   of characters, here an upper-case letter, lower-case letters and a
   punctuation mark *)
FrontOf(n) == IF n = 1 THEN <<"C", "?">> ELSE [i \in 1..n |-> "d"]

(* Reviewed cards: the n-th accepted (rejected) item of review pass p *)
Accepted(p, n) == [src |-> "qa", pass |-> p, n |-> n, front |-> FrontOf(n)]

(* An accepted card whose front differs from the front of the first
   accepted card in case and punctuation only *)
AcceptedTwin(p, n) == [Accepted(p, n) EXCEPT !.front = <<"c">>]
Rejected(p, n) == [src |-> "rej", pass |-> p, n |-> n]

(* The input count the reviewer reports about itself *)
ReviewerInputCount == 1

QaSummary(a, r) ==
    Dict([input_count |-> Num(ReviewerInputCount), accepted_count |-> Num(a),
          rejected_count |-> Num(r), deduplicated |-> Num(0)])

QaResult(p, a, r) ==
    Dict([summary |-> QaSummary(a, r),
          accepted |-> List([n \in 1..a |-> Accepted(p, n)]),
          rejected |-> List([n \in 1..r |-> Rejected(p, n)])])

(* The rejected counts the reviewer reports: every count in the first
   review, the two extremes in the second (which the code does not read) *)
RejectedCounts(p) == IF p = 1 THEN 0..MaxRejected ELSE {0, MaxRejected}

AcceptedCounts == {0, MaxAccepted}

QaJsons(p) ==
    {None,
     (* no summary, accepted is not a list *)
     Dict([accepted |-> RawText]),
     (* the summary is a list *)
     Dict([summary |-> List(<<Num(1)>>), accepted |-> List(<<Accepted(p, 1)>>)]),
     (* rejected_count is not a number *)
     Dict([summary |-> Dict([rejected_count |-> RawText]),
           accepted |-> List(<<Accepted(p, 1)>>)])}
    \cup {QaResult(p, a, r) : a \in AcceptedCounts, r \in RejectedCounts(p)}
    \cup {Dict([summary |-> QaSummary(2, 0),
                 accepted |-> List(<<Accepted(p, 1), AcceptedTwin(p, 2)>>),
                 rejected |-> List(<<>>)])}

QaResponses(p) == {Failed, NoUsage} \cup {Answer(j) : j \in QaJsons(p)}

(* ------------------------------- state -------------------------------- *)
VARIABLES
    pc,                  \* where _run_pipeline (or the task it awaits) stands
    input_text,          \* parameter input_text
    user_id,             \* parameter user_id
    deck_id,             \* parameter deck_id, reassigned at line 370
    inflight,            \* roles whose backend round trip is open
    calls,               \* the backend requests issued so far, in order
    failed,              \* positions in calls of the requests that raised
    usage,               \* table automated_suggestions, in insertion order
    chunk_task,          \* outcome of the task of chunker.run
    outline_task,        \* outcome of the task of content_instructor.run
    chunks,              \* local chunks
    pass,                \* 1: lines 240-282, 2: lines 305-336
    seg,                 \* position of the for loop over chunks (1-based)
    candidate_cards,     \* local candidate_cards
    improved_candidates, \* local improved_candidates
    qa_out,              \* local qa_out
    qa_out2,             \* local qa_out2
    accepted_cards,      \* local accepted_cards
    rejected_count,      \* local rejected_count
    feedback,            \* local feedback
    source_id,           \* local source_id
    sources,             \* table flashcard_sources
    decks,               \* table flashcard_decks
    flashcards,          \* table flashcards, in insertion order
    log_fault,           \* a usage-log write has failed in this run
    raised,              \* the exception that left _run_pipeline
    result,              \* the value _run_pipeline returned
    status,              \* statusCode lambda_function answered, 0 before
    agent_call,          \* one call of an agent's run(): arguments, outcome
    extract_call,        \* one call of _extract_json_from_text: text, value
    doc_call,            \* one call of extract_text_from_binary
    repair_call,         \* one call of basic_json_repair: text, value
    runs                 \* two runs of lines 340-356 on the same table

vars == <<pc, input_text, user_id, deck_id, inflight, calls, failed, usage,
          chunk_task, outline_task, chunks, pass, seg, candidate_cards,
          improved_candidates, qa_out, qa_out2, accepted_cards,
          rejected_count, feedback, source_id, sources, decks, flashcards,
          log_fault, raised, result, status, agent_call, extract_call,
          doc_call, repair_call, runs>>

units == <<agent_call, extract_call, doc_call, repair_call, runs>>
params == <<input_text, user_id, deck_id, status, units>>
tables == <<sources, decks, flashcards>>
locals1 == <<chunk_task, outline_task, chunks>>
locals2 == <<pass, seg, candidate_cards, improved_candidates, qa_out,
             qa_out2, accepted_cards, rejected_count, feedback>>

NotRun == [exc |-> NoErr, ret |-> None, rows |-> <<>>]

(* Rows the sources table may hold before the run: none, or one of another
   owner and one of this owner with this text *)
PriorSources(u, t) ==
    {{},
     {[id |-> 1, user_id |-> "u0", hash |-> Sha256(t)],
      [id |-> 2, user_id |-> u, hash |-> Sha256(t)]}}

(* The state in which line 189 is reached: the four agents exist *)
Init ==
    /\ pc = "start"
    /\ input_text \in Texts
    /\ user_id \in UserIds
    /\ deck_id \in DeckIds
    /\ inflight = {}
    /\ calls = <<>>
    /\ failed = {}
    /\ usage = <<>>
    /\ chunk_task = NotRun
    /\ outline_task = NotRun
    /\ chunks = None
    /\ pass = 1
    /\ seg = 1
    /\ candidate_cards = <<>>
    /\ improved_candidates = <<>>
    /\ qa_out = None
    /\ qa_out2 = None
    /\ accepted_cards = <<>>
    /\ rejected_count = 0
    /\ feedback = None
    /\ source_id = 0
    /\ sources \in PriorSources(user_id, input_text)
    /\ decks = {}
    /\ flashcards = <<>>
    /\ log_fault = FALSE
    /\ raised = NoErr
    /\ result = None
    /\ status = 0
    /\ agent_call = None
    /\ extract_call = None
    /\ doc_call = None
    /\ repair_call = None
    /\ runs = None

Request(role, message) == [role |-> role, message |-> message]

(* ------------------- lines 190-204: two stray coroutines -------------- *)
(* The requests line 190 and line 198 would issue if calling run() ran it *)
StrayRequestsIfRun(t) ==
    <<Request(ROLE_CHUNKER, t), Request(ROLE_OUTLINE, t)>>

(* chunker.run(...) and content_instructor.run(...) are called without
   await: each call only creates a coroutine object, whose body never runs
   (the names are rebound at line 207), so no request is issued. *)
StrayRequests(t) == <<>>

(* Lines 190-204 with the source row of lines 341-356 written first *)
CreateCoroutinesSourceFirst ==
    /\ pc = "start"
    /\ calls' = calls \o StrayRequests(input_text)
    /\ pc' = "gather"
    /\ sources' =
          IF \E r \in sources :
                 r.user_id = user_id /\ r.hash = Sha256(input_text)
          THEN sources
          ELSE sources \cup
                   {[id |-> 1 + Cardinality(sources), user_id |-> user_id,
                     hash |-> Sha256(input_text)]}
    /\ UNCHANGED <<params, inflight, failed, usage, locals1, locals2,
                   source_id, decks, flashcards, log_fault, raised, result>>

CreateCoroutines ==
    /\ pc = "start"
    /\ calls' = calls \o StrayRequests(input_text)
    /\ pc' = "gather"
    /\ UNCHANGED <<params, inflight, failed, usage, locals1, locals2,
                   source_id, tables, log_fault, raised, result>>

(* ---------------- step 1: asyncio.gather(chunker, outline) ------------ *)
(* Both coroutines call the synchronous client and await only coroutines
   that never suspend, so the task of chunker.run runs from its first line
   to its last before the task of content_instructor.run starts. *)
ChunkerIssue ==
    /\ pc = "gather"
    /\ pc' = "chunker_wait"
    /\ inflight' = inflight \cup {ROLE_CHUNKER}
    /\ calls' = Append(calls, Request(ROLE_CHUNKER, input_text))
    /\ UNCHANGED <<failed, log_fault, params, usage, locals1, locals2,
                   source_id, tables, raised, result>>

ChunkerReturn ==
    /\ pc = "chunker_wait"
    /\ \E resp \in ChunkerResponses(input_text), fault \in LogFaults(log_fault) :
         LET o == ChunkerRun(user_id, input_text, resp, fault)
         IN  /\ chunk_task' = o
             /\ failed' = IF resp.fail THEN failed \cup {Len(calls)} ELSE failed
             /\ usage' = usage \o o.rows
             /\ log_fault' = (log_fault \/ fault # "none")
    /\ inflight' = inflight \ {ROLE_CHUNKER}
    /\ pc' = "outline"
    /\ UNCHANGED <<params, calls, outline_task, chunks, locals2, source_id,
                   tables, raised, result>>

OutlineIssue ==
    /\ pc = "outline"
    /\ pc' = "outline_wait"
    /\ inflight' = inflight \cup {ROLE_OUTLINE}
    /\ calls' = Append(calls, Request(ROLE_OUTLINE, input_text))
    /\ UNCHANGED <<failed, log_fault, params, usage, locals1, locals2,
                   source_id, tables, raised, result>>

OutlineReturn ==
    /\ pc = "outline_wait"
    /\ \E resp \in OutlineResponses, fault \in LogFaults(log_fault) :
         LET o == OutlineRun(user_id, input_text, resp, fault)
         IN  /\ outline_task' = o
             /\ failed' = IF resp.fail THEN failed \cup {Len(calls)} ELSE failed
             /\ usage' = usage \o o.rows
             /\ log_fault' = (log_fault \/ fault # "none")
    /\ inflight' = inflight \ {ROLE_OUTLINE}
    /\ pc' = "join"
    /\ UNCHANGED <<params, calls, chunk_task, chunks, locals2, source_id,
                   tables, raised, result>>

(* The synthetic segment with an inclusive end offset *)
FallbackChunksInclusiveEnd(t) ==
    List(<<Dict([index |-> 0, title |-> None, heading_level |-> None,
                 language |-> "und",
                 span |-> [start |-> 0, end |-> Len(t) - 1],
                 text |-> t])>>)

(* The synthetic segment of lines 229-236 *)
FallbackChunks(t) ==
    List(<<Dict([index |-> 0, title |-> None, heading_level |-> None,
                 language |-> "und",
                 span |-> [start |-> 0, end |-> Len(t)],
                 text |-> t])>>)

(* Lines 225-236 *)
ChunksOf(chunk_out, t) ==
    LET c == IF IsDict(chunk_out) THEN Get(chunk_out.d, "chunks", None)
             ELSE None
    IN  IF ~Truthy(c) THEN FallbackChunks(t) ELSE c

(* for ch in chunks: ch.get(...) works on a list of dicts only *)
Iterable(c) == IsList(c) /\ \A i \in 1..Len(c.items) : IsDict(c.items[i])

(* The await of line 207 returns: the first exception of the two tasks is
   raised, else the results are bound and the segments are fixed. *)
Join ==
    /\ pc = "join"
    /\ IF chunk_task.exc # NoErr THEN
           /\ raised' = chunk_task.exc
           /\ pc' = "raised"
           /\ UNCHANGED chunks
       ELSE IF outline_task.exc # NoErr THEN
           /\ raised' = outline_task.exc
           /\ pc' = "raised"
           /\ UNCHANGED chunks
       ELSE
           /\ chunks' = ChunksOf(chunk_task.ret, input_text)
           /\ IF Iterable(chunks') THEN
                  /\ pc' = "generate"
                  /\ UNCHANGED raised
              ELSE
                  /\ pc' = "raised"
                  /\ raised' = AttributeError("get")
    /\ UNCHANGED <<failed, log_fault, params, inflight, calls, usage,
                   chunk_task, outline_task, locals2, source_id, tables,
                   result>>

(* ------------- steps 2 and 4: generation across the chunks ------------ *)
(* gen_message of lines 244-249 (first pass) and 307-312 (second pass) *)
GenMessage(ch, t, p, instr, fb) ==
    LET base == [chunk_index |-> Get(ch.d, "index", 0),
                 chunk_span |-> Get(ch.d, "span",
                                    [start |-> 0, end |-> Len(t)]),
                 text |-> Get(ch.d, "text", <<>>)]
    IN  IF p = 1
        THEN [chunk_index |-> base.chunk_index, chunk_span |-> base.chunk_span,
              text |-> base.text, content_instructions |-> instr]
        ELSE [chunk_index |-> base.chunk_index, chunk_span |-> base.chunk_span,
              text |-> base.text, feedback |-> fb]

(* Lines 262-266 and 320-324: the cards a generator result adds *)
RECURSIVE BatchCards(_)
BatchCards(batches) ==
    IF Len(batches) = 0 THEN <<>>
    ELSE EnsureList(Head(batches), "cards") \o BatchCards(Tail(batches))

CardsOf(gen_out) ==
    IF IsDict(gen_out) /\ "cards" \in DOMAIN gen_out.d
    THEN EnsureList(gen_out, "cards")
    ELSE IF IsList(gen_out) THEN BatchCards(gen_out.items)
    ELSE <<>>

(* The cards of a result put in front of the list *)
ExtendAtFront(cards, more) == more \o cards

(* list.extend of lines 263, 266, 321 and 324 *)
Extend(cards, more) == cards \o more

GenCallsIssued == Cardinality({i \in 1..Len(calls) : calls[i].role = ROLE_GENERATOR})

GenerateIssue ==
    /\ pc = "generate"
    /\ pc' = "generate_wait"
    /\ inflight' = inflight \cup {ROLE_GENERATOR}
    /\ calls' = Append(calls,
                       Request(ROLE_GENERATOR,
                               GenMessage(chunks.items[seg], input_text, pass,
                                          outline_task.ret, feedback)))
    /\ UNCHANGED <<failed, log_fault, params, usage, locals1, locals2,
                   source_id, tables, raised, result>>

GenerateReturn ==
    /\ pc = "generate_wait"
    /\ inflight' = inflight \ {ROLE_GENERATOR}
    /\ \E resp \in GeneratorResponses(GenCallsIssued), fault \in LogFaults(log_fault) :
         LET o == GeneratorRun(user_id, calls[Len(calls)].message, resp, fault)
         IN  /\ usage' = usage \o o.rows
             /\ log_fault' = (log_fault \/ fault # "none")
             /\ failed' = IF resp.fail THEN failed \cup {Len(calls)} ELSE failed
             /\ IF o.exc # NoErr THEN
                    /\ raised' = o.exc
                    /\ pc' = "raised"
                    /\ UNCHANGED <<seg, candidate_cards, improved_candidates>>
                ELSE
                    /\ IF pass = 1 THEN
                           /\ candidate_cards' =
                                  Extend(candidate_cards, CardsOf(o.ret))
                           /\ UNCHANGED improved_candidates
                       ELSE
                           /\ improved_candidates' =
                                  Extend(improved_candidates, CardsOf(o.ret))
                           /\ UNCHANGED candidate_cards
                    /\ seg' = seg + 1
                    /\ pc' = IF seg = Len(chunks.items) THEN "review"
                             ELSE "generate"
                    /\ UNCHANGED raised
    /\ UNCHANGED <<params, calls, locals1, pass, qa_out, qa_out2,
                   accepted_cards, rejected_count, feedback, source_id,
                   tables, result>>

(* ------------------- steps 3 and 4: review, decision ------------------ *)
(* qa_payload of lines 269-272 and qa_payload2 of lines 326-329 *)
QaPayload(p, t, cands, improved) ==
    IF p = 1 THEN [source_text |-> t, cards |-> cands]
    ELSE [source_char_len |-> Len(t), cards |-> improved]

(* The review request issued without awaiting the last generator call *)
ReviewIssueEarly ==
    /\ \/ pc = "review"
       \/ pc = "generate_wait" /\ seg = Len(chunks.items)
    /\ pc' = "review_wait"
    /\ inflight' = inflight \cup {ROLE_QA}
    /\ calls' = Append(calls,
                       Request(ROLE_QA,
                               QaPayload(pass, input_text, candidate_cards,
                                         improved_candidates)))
    /\ UNCHANGED <<log_fault, failed, params, usage, locals1, locals2,
                   source_id, tables, raised, result>>

ReviewIssue ==
    /\ pc = "review"
    /\ pc' = "review_wait"
    /\ inflight' = inflight \cup {ROLE_QA}
    /\ calls' = Append(calls,
                       Request(ROLE_QA,
                               QaPayload(pass, input_text, candidate_cards,
                                         improved_candidates)))
    /\ UNCHANGED <<failed, log_fault, params, usage, locals1, locals2,
                   source_id, tables, raised, result>>

(* Line 297 with >= for > *)
NeedsRegenerationAtThreshold(cands, r) ==
    /\ Len(cands) > 0
    /\ ThresholdDen * r >= ThresholdNum * Max(1, Len(cands))

(* Line 297 without its first operand: the ratio alone decides *)
NeedsRegenerationRatioOnly(cands, r) ==
    ThresholdDen * r > ThresholdNum * Max(1, Len(cands))

(* Line 297 *)
NeedsRegeneration(cands, r) ==
    /\ Len(cands) > 0
    /\ ThresholdDen * r > ThresholdNum * Max(1, Len(cands))

(* Lines 286-291: the exception they raise, if any *)
SummaryOf(out) ==
    LET s == Get(out.d, "summary", None)
    IN  IF Truthy(s) THEN s ELSE EmptyDict

ReadError(out) ==
    IF ~IsDict(out) THEN NoErr
    ELSE IF ~IsDict(SummaryOf(out)) THEN AttributeError("get")
    ELSE IF Get(SummaryOf(out).d, "rejected_count", Num(0)).kind # "int"
         THEN ValueError("int")
    ELSE NoErr

AcceptedOf(out) == IF IsDict(out) THEN EnsureList(out, "accepted") ELSE <<>>

RejectedCountOf(out) ==
    IF IsDict(out) THEN Get(SummaryOf(out).d, "rejected_count", Num(0)).v
    ELSE 0

(* Lines 299-303 *)
Feedback(out) ==
    [instruction |-> "regenerate",
     qa_summary |-> Get(out.d, "summary", EmptyDict),
     examples_of_issues |-> Take(EnsureList(out, "rejected"), FeedbackSample)]

(* The first review returns: lines 284-303 *)
ReviewReturn ==
    /\ pc = "review_wait"
    /\ pass = 1
    /\ inflight' = inflight \ {ROLE_QA}
    /\ \E resp \in QaResponses(1), fault \in LogFaults(log_fault) :
         LET o == QualityRun(user_id, calls[Len(calls)].message, resp, fault)
         IN  /\ usage' = usage \o o.rows
             /\ log_fault' = (log_fault \/ fault # "none")
             /\ failed' = IF resp.fail THEN failed \cup {Len(calls)} ELSE failed
             /\ IF o.exc # NoErr THEN
                    /\ raised' = o.exc
                    /\ pc' = "raised"
                    /\ UNCHANGED <<pass, seg, qa_out, accepted_cards,
                                   rejected_count, feedback>>
                ELSE IF ReadError(o.ret) # NoErr THEN
                    /\ raised' = ReadError(o.ret)
                    /\ pc' = "raised"
                    /\ qa_out' = o.ret
                    /\ accepted_cards' = AcceptedOf(o.ret)
                    /\ UNCHANGED <<pass, seg, rejected_count, feedback>>
                ELSE
                    /\ qa_out' = o.ret
                    /\ accepted_cards' = AcceptedOf(o.ret)
                    /\ rejected_count' = RejectedCountOf(o.ret)
                    /\ IF NeedsRegeneration(candidate_cards, rejected_count') THEN
                           /\ feedback' = Feedback(o.ret)
                           /\ pass' = 2
                           /\ seg' = 1
                           /\ pc' = "generate"
                       ELSE
                           /\ pc' = "source"
                           /\ UNCHANGED <<pass, seg, feedback>>
                    /\ UNCHANGED raised
    /\ UNCHANGED <<params, calls, locals1, candidate_cards,
                   improved_candidates, qa_out2, source_id, tables, result>>

(* Lines 337-338 *)
AcceptedAfterRetry(out2, accepted) ==
    IF IsDict(out2) THEN EnsureList(out2, "accepted") ELSE accepted

(* The second review returns, with the test of line 297 applied again *)
ReviewReturn2Again ==
    /\ pc = "review_wait"
    /\ pass = 2
    /\ inflight' = inflight \ {ROLE_QA}
    /\ \E resp \in QaResponses(2), fault \in LogFaults(log_fault) :
         LET o == QualityRun(user_id, calls[Len(calls)].message, resp, fault)
         IN  /\ usage' = usage \o o.rows
             /\ log_fault' = (log_fault \/ fault # "none")
             /\ failed' = IF resp.fail THEN failed \cup {Len(calls)} ELSE failed
             /\ IF o.exc # NoErr \/ ReadError(o.ret) # NoErr THEN
                    /\ raised' = IF o.exc # NoErr THEN o.exc ELSE ReadError(o.ret)
                    /\ pc' = "raised"
                    /\ UNCHANGED <<qa_out2, accepted_cards, seg,
                                   improved_candidates>>
                ELSE
                    /\ qa_out2' = o.ret
                    /\ accepted_cards' = AcceptedAfterRetry(o.ret, accepted_cards)
                    /\ IF NeedsRegeneration(improved_candidates,
                                            RejectedCountOf(o.ret))
                       THEN /\ pc' = "generate"
                            /\ seg' = 1
                            /\ improved_candidates' = <<>>
                       ELSE /\ pc' = "source"
                            /\ UNCHANGED <<seg, improved_candidates>>
                    /\ UNCHANGED raised
    /\ UNCHANGED <<params, calls, locals1, pass, candidate_cards, qa_out,
                   rejected_count, feedback, source_id, tables, result>>

(* The second review returns: lines 330-338 *)
ReviewReturn2 ==
    /\ pc = "review_wait"
    /\ pass = 2
    /\ inflight' = inflight \ {ROLE_QA}
    /\ \E resp \in QaResponses(2), fault \in LogFaults(log_fault) :
         LET o == QualityRun(user_id, calls[Len(calls)].message, resp, fault)
         IN  /\ usage' = usage \o o.rows
             /\ log_fault' = (log_fault \/ fault # "none")
             /\ failed' = IF resp.fail THEN failed \cup {Len(calls)} ELSE failed
             /\ IF o.exc # NoErr THEN
                    /\ raised' = o.exc
                    /\ pc' = "raised"
                    /\ UNCHANGED <<qa_out2, accepted_cards>>
                ELSE
                    /\ qa_out2' = o.ret
                    /\ accepted_cards' = AcceptedAfterRetry(o.ret, accepted_cards)
                    /\ pc' = "source"
                    /\ UNCHANGED raised
    /\ UNCHANGED <<params, calls, locals1, pass, seg, candidate_cards,
                   improved_candidates, qa_out, rejected_count, feedback,
                   source_id, tables, result>>

(* --------------------------- persistence ------------------------------ *)
PreviewSize == 10

MaxId(rows) == IF rows = {} THEN 0
               ELSE CHOOSE m \in {r.id : r \in rows} :
                        \A r \in rows : r.id <= m

(* The lookup of line 344 without the filter on the owner *)
ExistingSourcesAnyOwner(rows, u, h) == {r \in rows : r.hash = h}

(* Line 344: the rows of this owner with this hash *)
ExistingSources(rows, u, h) ==
    {r \in rows : r.user_id = u /\ r.hash = h}

(* Lines 340-356: reuse the source of this owner and hash, else insert one.
   ok = FALSE: the select or the insert raises.  An insert that succeeds
   returns the inserted row (line 356 indexes data[0]). *)
SourceStep ==
    /\ pc = "source"
    /\ LET h == Sha256(input_text)
           existing == ExistingSources(sources, user_id, h)
       IN  \E ok \in BOOLEAN :
             IF ~ok THEN
                 /\ raised' = DbError("flashcard_sources")
                 /\ pc' = "raised"
                 /\ UNCHANGED <<source_id, sources>>
             ELSE IF existing # {} THEN
                 /\ \E r \in existing : source_id' = r.id
                 /\ pc' = "deck"
                 /\ UNCHANGED <<sources, raised>>
             ELSE
                 /\ source_id' = MaxId(sources) + 1
                 /\ sources' = sources \cup
                        {[id |-> source_id', user_id |-> user_id, hash |-> h]}
                 /\ pc' = "deck"
                 /\ UNCHANGED raised
    /\ UNCHANGED <<failed, log_fault, params, inflight, calls, usage, locals1,
                   locals2, decks, flashcards, result>>

(* Lines 361-370 without the test of line 361: a deck is inserted in every
   run, and a given deck id is kept *)
DeckStepAlways ==
    /\ pc = "deck"
    /\ \E ok \in BOOLEAN :
         IF ~ok THEN
             /\ raised' = DbError("flashcard_decks")
             /\ pc' = "raised"
             /\ UNCHANGED <<deck_id, decks>>
         ELSE
             /\ deck_id' = IF deck_id # NoDeck THEN deck_id
                           ELSE [kind |-> "created", id |-> MaxId(decks) + 1]
             /\ decks' = decks \cup
                    {[id |-> MaxId(decks) + 1, user_id |-> user_id,
                      source_id |-> source_id]}
             /\ pc' = "cards"
             /\ UNCHANGED raised
    /\ UNCHANGED <<failed, log_fault, input_text, user_id, status, units,
                   inflight, calls, usage, locals1, locals2, source_id,
                   sources, flashcards, result>>

(* Lines 361-370: a deck is inserted only when no deck id was given *)
DeckStep ==
    /\ pc = "deck"
    /\ IF deck_id # NoDeck THEN
           /\ pc' = "cards"
           /\ UNCHANGED <<deck_id, decks, raised>>
       ELSE
           \E ok \in BOOLEAN :
             IF ~ok THEN
                 /\ raised' = DbError("flashcard_decks")
                 /\ pc' = "raised"
                 /\ UNCHANGED <<deck_id, decks>>
             ELSE
                 /\ deck_id' = [kind |-> "created", id |-> MaxId(decks) + 1]
                 /\ decks' = decks \cup
                        {[id |-> deck_id'.id, user_id |-> user_id,
                          source_id |-> source_id]}
                 /\ pc' = "cards"
                 /\ UNCHANGED raised
    /\ UNCHANGED <<failed, log_fault, input_text, user_id, status, units, inflight,
                   calls, usage, locals1, locals2, source_id, sources,
                   flashcards, result>>

(* Lines 378-391 *)
Rows(accepted, u, deck, src) ==
    [i \in 1..Len(accepted) |->
        [user_id |-> u, deck_id |-> deck, source_id |-> src,
         front |-> Get(accepted[i], "front", <<>>),
         card |-> accepted[i]]]

(* Lines 397-401 *)
PipelineResult(deck, inserted, accepted) ==
    [deck_id |-> deck, inserted_count |-> Len(inserted),
     accepted_preview |-> Take(accepted, PreviewSize)]

(* Lines 372-401: batch insert of the accepted cards, then return *)
CardsStep ==
    /\ pc = "cards"
    /\ LET rows == Rows(accepted_cards, user_id, deck_id, source_id)
       IN  IF rows = <<>> THEN
               /\ result' = PipelineResult(deck_id, <<>>, accepted_cards)
               /\ pc' = "done"
               /\ UNCHANGED <<flashcards, raised>>
           ELSE
               \E ok \in BOOLEAN :
                 IF ~ok THEN
                     /\ raised' = DbError("flashcards")
                     /\ pc' = "raised"
                     /\ UNCHANGED <<flashcards, result>>
                 ELSE
                     /\ flashcards' = flashcards \o rows
                     /\ result' = PipelineResult(deck_id, rows, accepted_cards)
                     /\ pc' = "done"
                     /\ UNCHANGED raised
    /\ UNCHANGED <<failed, log_fault, params, inflight, calls, usage, locals1,
                   locals2, source_id, sources, decks>>

Next ==
    \/ CreateCoroutines
    \/ ChunkerIssue
    \/ ChunkerReturn
    \/ OutlineIssue
    \/ OutlineReturn
    \/ Join
    \/ GenerateIssue
    \/ GenerateReturn
    \/ ReviewIssue
    \/ ReviewReturn
    \/ ReviewReturn2
    \/ SourceStep
    \/ DeckStep
    \/ CardsStep

Spec == Init /\ [][Next]_vars

(* ------------- _run_pipeline from its entry, under the handler -------- *)
(* The keyword parameters of each agent's __init__ (all but model are
   required) and the keywords each constructor call of lines 157-187
   passes. *)
AgentClasses == <<"ChunkSplitterAgent", "ContentInstructionAgent",
                  "FlashcardGeneratorAgent", "FlashcardQualityAgent">>

InitParams(cls) ==
    IF cls = "ContentInstructionAgent"
    THEN {"api_key", "uuid", "jwt_token", "model"}
    ELSE {"system_prompt", "api_key", "uuid", "jwt_token", "model"}

CallKeywords(cls) ==
    IF cls = "ContentInstructionAgent"
    THEN {"api_key", "user_id", "jwt_token", "model"}
    ELSE {"system_prompt", "api_key", "uuid", "jwt_token", "model"}

TypeError(cls) == [kind |-> "TypeError", what |-> cls]

(* A call binds when every keyword names a parameter and every parameter
   without a default is given *)
Binds(cls) ==
    /\ CallKeywords(cls) \subseteq InitParams(cls)
    /\ (InitParams(cls) \ {"model"}) \subseteq CallKeywords(cls)

RunTexts == Texts \cup {<<"a">>}
RunUserIds == UserIds \cup {"u2", "anonymous"}

InitRun ==
    /\ pc = "entry"
    /\ input_text \in RunTexts
    /\ user_id \in RunUserIds
    /\ deck_id \in DeckIds
    /\ inflight = {}
    /\ calls = <<>>
    /\ failed = {}
    /\ usage = <<>>
    /\ chunk_task = NotRun
    /\ outline_task = NotRun
    /\ chunks = None
    /\ pass = 1
    /\ seg = 1
    /\ candidate_cards = <<>>
    /\ improved_candidates = <<>>
    /\ qa_out = None
    /\ qa_out2 = None
    /\ accepted_cards = <<>>
    /\ rejected_count = 0
    /\ feedback = None
    /\ source_id = 0
    /\ sources \in PriorSources(user_id, input_text)
    /\ decks = {}
    /\ flashcards = <<>>
    /\ log_fault = FALSE
    /\ raised = NoErr
    /\ result = None
    /\ status = 0
    /\ agent_call = None
    /\ extract_call = None
    /\ doc_call = None
    /\ repair_call = None
    /\ runs = None

(* Lines 155-187: the four constructor calls, in order; the first call that
   does not bind raises TypeError and leaves _run_pipeline. *)
ConstructAgents ==
    /\ pc = "entry"
    /\ LET bad == {i \in 1..Len(AgentClasses) : ~Binds(AgentClasses[i])}
       IN  IF bad = {} THEN
               /\ pc' = "start"
               /\ UNCHANGED raised
           ELSE
               /\ pc' = "raised"
               /\ raised' = TypeError(AgentClasses[
                                CHOOSE i \in bad : \A j \in bad : i <= j])
    /\ UNCHANGED <<failed, params, inflight, calls, usage, locals1, locals2,
                   source_id, tables, log_fault, result>>

(* lambda_function, lines 533-558: 200 with the result, 500 on any
   exception *)
LambdaRespond ==
    /\ pc \in {"done", "raised"}
    /\ status = 0
    /\ status' = IF pc = "done" THEN 200 ELSE 500
    /\ UNCHANGED <<failed, pc, input_text, user_id, deck_id, units, inflight, calls,
                   usage, locals1, locals2, source_id, tables, log_fault,
                   raised, result>>

NextRun ==
    \/ ConstructAgents
    \/ LambdaRespond

SpecRun == InitRun /\ [][NextRun]_vars

(* ======================= properties of the pipeline =================== *)
RequestsOf(role) == {i \in 1..Len(calls) : calls[i].role = role}
NumSegs == IF IsList(chunks) THEN Len(chunks.items) ELSE 0
Persisting == pc \in {"source", "deck", "cards", "done"}

(* The rejected count the first review's summary reports, when it has one *)
ReportsRejected(out) ==
    /\ IsDict(out)
    /\ "summary" \in DOMAIN out.d
    /\ IsDict(out.d.summary)
    /\ "rejected_count" \in DOMAIN out.d.summary.d
    /\ out.d.summary.d.rejected_count.kind = "int"

(* C1: once the first review has returned a summary that reports a rejected
   count r, over c >= 1 candidates collected by the orchestrator, the
   regeneration pass is entered if and only if r / c > 0.3, that is
   10 * r > 3 * c; the reviewer's own input_count plays no part. *)
C1_RetryIffRatioAboveThreshold ==
    (ReportsRejected(qa_out) /\ Len(candidate_cards) >= 1)
        => ((pass = 2) <=>
            (10 * qa_out.d.summary.d.rejected_count.v
                 > 3 * Len(candidate_cards)))

(* 3 rejected of 10 candidates: the run went on to persistence in pass 1 *)
C1_Witness ==
    /\ ReportsRejected(qa_out)
    /\ Len(candidate_cards) = 10
    /\ qa_out.d.summary.d.rejected_count.v = 3
    /\ qa_out.d.summary.d.input_count.v # Len(candidate_cards)
    /\ pass = 1
    /\ pc = "done"

(* C2: at most two review calls and at most two generator calls per segment
   are ever issued, and once the second review has returned the run is in
   persistence (or has raised), whatever that review reports. *)
C2_AtMostOneRegeneration ==
    /\ Cardinality(RequestsOf(ROLE_QA)) <= 2
    /\ Cardinality(RequestsOf(ROLE_GENERATOR)) <= 2 * NumSegs
    /\ (qa_out2 # None) => (Persisting \/ pc = "raised")

(* The second review also reports more than 30% rejected, and the run is
   done after two reviews *)
C2_Witness ==
    /\ pc = "done"
    /\ ReportsRejected(qa_out2)
    /\ Len(improved_candidates) >= 1
    /\ 10 * qa_out2.d.summary.d.rejected_count.v > 3 * Len(improved_candidates)
    /\ Cardinality(RequestsOf(ROLE_QA)) = 2

(* The accepted list of a review result: the list under "accepted" of an
   object, nothing for anything else *)
ReviewAccepted(out) ==
    IF IsDict(out) /\ "accepted" \in DOMAIN out.d /\ IsList(out.d.accepted)
    THEN out.d.accepted.items ELSE <<>>

PersistedCards == [i \in 1..Len(flashcards) |-> flashcards[i].card]

(* C3: in a run that regenerated, the second review is asked about cards of
   the second generation pass only, and a completed run persists and returns
   the second review's accepted list. *)
C3_RetryReplacesAccepted ==
    /\ \A i \in RequestsOf(ROLE_QA) :
          (i > 1 /\ \E j \in RequestsOf(ROLE_QA) : j < i)
              => \A k \in 1..Len(calls[i].message.cards) :
                     calls[i].message.cards[k].call > NumSegs
    /\ (pc = "done" /\ pass = 2)
          => /\ accepted_cards = ReviewAccepted(qa_out2)
             /\ PersistedCards = ReviewAccepted(qa_out2)
             /\ result.accepted_preview = Take(ReviewAccepted(qa_out2), 10)

(* C4: a completed run whose last review returned something that is not an
   object has no accepted card and inserted none. *)
LastReview == IF pass = 2 THEN qa_out2 ELSE qa_out

C4_UnparseableReviewAcceptsNothing ==
    (pc = "done" /\ ~IsDict(LastReview))
        => /\ accepted_cards = <<>>
           /\ result.inserted_count = 0
           /\ flashcards = <<>>

(* The Segmenter returned no usable segment list *)
NoSegments(out) ==
    \/ ~IsDict(out)
    \/ "chunks" \notin DOMAIN out.d
    \/ (IsList(out.d.chunks) /\ Len(out.d.chunks.items) = 0)

(* C5: when the Segmenter returns raw text, no segment list or an empty one,
   the segments are exactly one segment of index 0, span {0, len(t)} and
   text t, every generator request carries that segment, and each pass asks
   the generator once. *)
C5_FallbackSegment ==
    (IsList(chunks) /\ NoSegments(chunk_task.ret))
        => /\ Len(chunks.items) = 1
           /\ chunks.items[1].d.index = 0
           /\ chunks.items[1].d.span = [start |-> 0, end |-> Len(input_text)]
           /\ chunks.items[1].d.text = input_text
           /\ \A i \in RequestsOf(ROLE_GENERATOR) :
                 /\ calls[i].message.chunk_index = 0
                 /\ calls[i].message.chunk_span
                        = [start |-> 0, end |-> Len(input_text)]
                 /\ calls[i].message.text = input_text
           /\ Cardinality(RequestsOf(ROLE_GENERATOR)) <= pass
           /\ (pc = "review" => Cardinality(RequestsOf(ROLE_GENERATOR)) = pass)

(* Raw text from the Segmenter for a text of three characters, first
   generation pass finished *)
C5_Witness ==
    /\ chunk_task.ret.kind = "str"
    /\ Len(input_text) = 3
    /\ pc = "review"
    /\ pass = 1
    /\ Cardinality(RequestsOf(ROLE_GENERATOR)) = 1

(* C6: a run fails only when a stage reports an error, that is a backend
   call or a persistence call raised; a run none of whose calls failed ends
   in DONE. *)
C6_RunFailsOnlyOnStageError ==
    (pc = "raised") => raised.kind \in {"BackendError", "DbError"}

(* The backend calls of the Segmenter, the Content-Outline agent and the
   Card-Generator that raised *)
ClaimedFailures ==
    {i \in failed :
        calls[i].role \in {ROLE_CHUNKER, ROLE_OUTLINE, ROLE_GENERATOR}}

(* The await of line 207 is over *)
Joined ==
    pc \notin {"start", "gather", "chunker_wait", "outline", "outline_wait",
               "join"}

(* After the failed request i only the Content-Outline request, sibling of a
   failed Segmenter request, is issued; nothing is persisted *)
NoLaterStage(i) ==
    /\ \A j \in (i + 1)..Len(calls) :
          calls[i].role = ROLE_CHUNKER /\ calls[j].role = ROLE_OUTLINE
    /\ ~Persisting

NotRetried(i) == \A j \in (i + 1)..Len(calls) : calls[j].role # calls[i].role

NothingWritten ==
    /\ sources \in PriorSources(user_id, input_text)
    /\ decks = {}
    /\ flashcards = <<>>

(* C7 as stated: once a backend call of the Segmenter, the Content-Outline
   agent or the Card-Generator has failed, the run has raised exactly that
   call's error, no later stage was invoked, the call was not retried and
   no record was written. *)
C7_FailureSurfacesThatError ==
    \A i \in ClaimedFailures :
        Joined => /\ pc = "raised"
                  /\ raised = BackendError(calls[i].role)
                  /\ NoLaterStage(i)
                  /\ NotRetried(i)
                  /\ NothingWritten

(* C7 amended: the same, but when the Segmenter's task raised too, the error
   of a failed Content-Outline call is dropped and the Segmenter task's
   error is the one surfaced. *)
C7_FailureAbortsWithFirstError ==
    \A i \in ClaimedFailures :
        Joined => /\ pc = "raised"
                  /\ raised = IF calls[i].role = ROLE_OUTLINE
                                 /\ chunk_task.exc # NoErr
                              THEN chunk_task.exc
                              ELSE BackendError(calls[i].role)
                  /\ NoLaterStage(i)
                  /\ NotRetried(i)
                  /\ NothingWritten

(* Both calls of step 1 failed and the run raised the Segmenter's error *)
C7_Witness ==
    /\ failed = {1, 2}
    /\ pc = "raised"
    /\ raised = BackendError(ROLE_CHUNKER)

(* C8: while the Segmenter's round trip is open and the Content-Outline
   request is not yet issued, the Content-Outline request can be issued
   (neither has to return before the other is issued); and neither task
   writes the other's result slot. *)
C8_BothRoundTripsCanBeOpen ==
    (ROLE_CHUNKER \in inflight /\ RequestsOf(ROLE_OUTLINE) = {})
        => ENABLED OutlineIssue

(* C9: no generator request is issued before both tasks of step 1 have
   returned; at most one round trip is open at a time, and it is the one of
   the request issued last; each review request follows all generator
   requests of its pass; the second pass starts after the first review has
   returned. *)
C9_OneRoundTripAtATime ==
    /\ RequestsOf(ROLE_GENERATOR) # {}
          => /\ chunk_task.exc = NoErr /\ chunk_task.ret # None
             /\ outline_task.exc = NoErr /\ outline_task.ret # None
    /\ Joined => /\ Cardinality(inflight) <= 1
                 /\ \A r \in inflight : calls[Len(calls)].role = r
    /\ \A i \in RequestsOf(ROLE_QA) :
          Cardinality({j \in RequestsOf(ROLE_GENERATOR) : j < i})
              = NumSegs * Cardinality({j \in RequestsOf(ROLE_QA) : j <= i})
    /\ Cardinality(RequestsOf(ROLE_GENERATOR)) > NumSegs => qa_out # None

(* The last generator round trip of the second pass over two segments is
   open, alone *)
C9_Witness ==
    /\ pc = "generate_wait"
    /\ pass = 2
    /\ NumSegs = 2
    /\ Cardinality(RequestsOf(ROLE_GENERATOR)) = 4
    /\ inflight = {ROLE_GENERATOR}

(* C10: the Segmenter and the Content-Outline agent are called at most once,
   and a completed run over n segments has called each of them once, the
   Card-Generator n times per pass and the Quality-Reviewer once per pass:
   n + 3 requests without a regeneration pass, 2n + 4 with one. *)
C10_BackendCallCounts ==
    /\ Cardinality(RequestsOf(ROLE_CHUNKER)) <= 1
    /\ Cardinality(RequestsOf(ROLE_OUTLINE)) <= 1
    /\ pc = "done"
          => /\ Cardinality(RequestsOf(ROLE_CHUNKER)) = 1
             /\ Cardinality(RequestsOf(ROLE_OUTLINE)) = 1
             /\ Cardinality(RequestsOf(ROLE_GENERATOR)) = pass * NumSegs
             /\ Cardinality(RequestsOf(ROLE_QA)) = pass
             /\ Len(calls) = IF pass = 1 THEN NumSegs + 3
                              ELSE 2 * NumSegs + 4

(* A run over two segments completed after a regeneration pass *)
C10_Witness ==
    /\ pc = "done"
    /\ pass = 2
    /\ NumSegs = 2
    /\ Len(calls) = 8

(* ================== one call of an agent's run() ====================== *)
Pending == [kind |-> "pending"]

(* Every variable of _run_pipeline but its parameters and the sources table
   has the value it has before the run *)
NoRun ==
    /\ inflight = {}
    /\ calls = <<>>
    /\ failed = {}
    /\ usage = <<>>
    /\ chunk_task = NotRun
    /\ outline_task = NotRun
    /\ chunks = None
    /\ pass = 1
    /\ seg = 1
    /\ candidate_cards = <<>>
    /\ improved_candidates = <<>>
    /\ qa_out = None
    /\ qa_out2 = None
    /\ accepted_cards = <<>>
    /\ rejected_count = 0
    /\ feedback = None
    /\ source_id = 0
    /\ decks = {}
    /\ flashcards = <<>>
    /\ log_fault = FALSE
    /\ raised = NoErr
    /\ result = None
    /\ status = 0

AgentRoles == {ROLE_CHUNKER, ROLE_OUTLINE, ROLE_GENERATOR, ROLE_QA}

(* Output texts that parse to an empty object or an empty array *)
FalsyJsons == {EmptyDict, List(<<>>)}

AgentMessage == <<"a", "b", "c">>

(* The responses a call of the agent of a role may receive *)
AgentResponses(role) ==
    {Answer(j) : j \in FalsyJsons} \cup
    (CASE role = ROLE_CHUNKER -> ChunkerResponses(AgentMessage)
       [] role = ROLE_OUTLINE -> OutlineResponses
       [] role = ROLE_GENERATOR -> GeneratorResponses(1)
       [] OTHER -> QaResponses(1))

(* <agent>.run(user_id, ..., system_role_id = role, message) *)
AgentRunOf(role, user, message, resp, fault) ==
    CASE role = ROLE_CHUNKER -> ChunkerRun(user, message, resp, fault)
      [] role = ROLE_OUTLINE -> OutlineRun(user, message, resp, fault)
      [] role = ROLE_GENERATOR -> GeneratorRun(user, message, resp, fault)
      [] OTHER -> QualityRun(user, message, resp, fault)

InitAgent ==
    /\ pc = "agent"
    /\ input_text = AgentMessage
    /\ user_id \in UserIds
    /\ deck_id = NoDeck
    /\ sources = {}
    /\ NoRun
    /\ \E role \in AgentRoles :
         \E resp \in AgentResponses(role), fault \in LogFaults(FALSE) :
            agent_call = [role |-> role, resp |-> resp, fault |-> fault,
                          out |-> Pending]
    /\ extract_call = None
    /\ doc_call = None
    /\ repair_call = None
    /\ runs = None

AgentRun ==
    /\ pc = "agent"
    /\ agent_call.out = Pending
    /\ agent_call' =
          [agent_call EXCEPT
              !.out = AgentRunOf(agent_call.role, user_id, input_text,
                                 agent_call.resp, agent_call.fault)]
    /\ UNCHANGED <<pc, input_text, user_id, deck_id, status, extract_call,
                   doc_call, repair_call, runs, inflight, calls, failed, usage, locals1, locals2,
                   source_id, tables, log_fault, raised, result>>

NextAgent == AgentRun

SpecAgent == InitAgent /\ [][NextAgent]_vars

(* The call has returned or raised *)
AgentDone == agent_call.out # Pending

(* The backend answered and the answer carries usage counters *)
Answered == ~agent_call.resp.fail /\ agent_call.resp.usage

(* C11: a stage whose backend call was answered returns, whichever
   usage-log write fails, what it returns when no write fails, and does not
   raise. *)
C11_LogFailureKeepsResult ==
    (AgentDone /\ Answered)
        => /\ agent_call.out.exc = NoErr
           /\ agent_call.out.ret
                  = AgentRunOf(agent_call.role, user_id, input_text,
                               agent_call.resp, "none").ret

(* C12: whenever no round trip is open, the usage table holds two records
   per answered backend call, in call order: the input record with the input
   token count, then the output record with the output token count, both
   tagged with the role of the call. *)
AnsweredCalls ==
    SelectSeq([i \in 1..Len(calls) |-> [i |-> i, role |-> calls[i].role]],
              LAMBDA c : c.i \notin failed)

C12_TwoUsageRecordsPerCall ==
    (inflight = {})
        => /\ Len(usage) = 2 * Len(AnsweredCalls)
           /\ \A k \in 1..Len(AnsweredCalls) :
                 /\ usage[2 * k - 1].system_role_id = AnsweredCalls[k].role
                 /\ usage[2 * k - 1].token_count = InputTokens
                 /\ usage[2 * k - 1].content
                        = calls[AnsweredCalls[k].i].message
                 /\ usage[2 * k].system_role_id = AnsweredCalls[k].role
                 /\ usage[2 * k].token_count = OutputTokens
                 /\ usage[2 * k].content = TextOf(AnsweredCalls[k].role)

(* C13 as stated: an answered call whose log writes succeed does not raise,
   returns the parsed value when the output parses and the raw output text
   when it does not. *)
C13_ParsedElseRawText ==
    (AgentDone /\ Answered /\ agent_call.fault = "none")
        => /\ agent_call.out.exc = NoErr
           /\ agent_call.out.ret
                  = IF agent_call.resp.json # None THEN agent_call.resp.json
                    ELSE RawText

(* C13 amended: such a call does not raise; the Card-Generator returns the
   parsed value, and the empty object when nothing parses; the other three
   return the parsed value unless it is null, an empty object or an empty
   array, and the raw output text in those cases. *)
C13_NeverRaisesOnParseFailure ==
    (AgentDone /\ Answered /\ agent_call.fault = "none")
        => /\ agent_call.out.exc = NoErr
           /\ agent_call.out.ret
                  = IF agent_call.role = ROLE_GENERATOR
                    THEN (IF agent_call.resp.json = None THEN EmptyDict
                          ELSE agent_call.resp.json)
                    ELSE (IF agent_call.resp.json \in {None} \cup FalsyJsons
                          THEN RawText ELSE agent_call.resp.json)

(* The Card-Generator got an output that does not parse and returned {} *)
C13_Witness ==
    /\ AgentDone
    /\ Answered
    /\ agent_call.fault = "none"
    /\ agent_call.role = ROLE_GENERATOR
    /\ agent_call.resp.json = None
    /\ agent_call.out.ret = EmptyDict

(* C14: a call answered without usage counters does not raise and logs its
   two records with a token count of 0. *)
C14_MissingUsageCountsZero ==
    (AgentDone /\ ~agent_call.resp.fail /\ ~agent_call.resp.usage
        /\ agent_call.fault = "none")
        => /\ agent_call.out.exc = NoErr
           /\ Len(agent_call.out.rows) = 2
           /\ \A k \in 1..Len(agent_call.out.rows) :
                 agent_call.out.rows[k].token_count = 0

(* ==================== _extract_json_from_text ========================= *)
(* A text is a sequence of fragments: a code-fence marker (three
   backquotes), the tag json, a language tag other than json with its line
   end, the JSON texts 1 and 2, white space, and the two ends of the
   serialization of an object with one key whose value is a string (the
   opening brace, the key, the colon and the opening quote; the closing
   quote and the closing brace). *)
FENCE == "fence"
JSON_TAG == "json"
OTHER_TAG == "python"
ONE == "1"
TWO == "2"
WS == " "
OPEN == "{a:"
CLOSE == "}"

MaxLen == 6
MaxStr == 4

(* The fragments a JSON string may hold unescaped *)
StringChars == {FENCE, JSON_TAG, OTHER_TAG, ONE, TWO, WS}

SeqsUpTo(S, n) == UNION {[1..k -> S] : k \in 0..n}

(* str.strip() *)
RECURSIVE StripLeft(_)
StripLeft(t) ==
    IF Len(t) > 0 /\ Head(t) = WS THEN StripLeft(Tail(t)) ELSE t

RECURSIVE StripRight(_)
StripRight(t) ==
    IF Len(t) > 0 /\ t[Len(t)] = WS
    THEN StripRight(SubSeq(t, 1, Len(t) - 1)) ELSE t

Strip(t) == StripRight(StripLeft(t))

JsonError == [kind |-> "JSONDecodeError"]
Str(chars) == [kind |-> "str", s |-> chars]

(* json.loads: white space around the value is skipped *)
JsonLoads(t) ==
    LET core == Strip(t)
    IN  IF core = <<ONE>> THEN Num(1)
        ELSE IF core = <<TWO>> THEN Num(2)
        ELSE IF /\ Len(core) >= 2
                /\ core[1] = OPEN
                /\ core[Len(core)] = CLOSE
                /\ \A i \in 2..(Len(core) - 1) : core[i] \in StringChars
             THEN Dict([a |-> Str(SubSeq(core, 2, Len(core) - 1))])
        ELSE JsonError

(* json.dumps of a value of the model *)
JsonDumps(v) ==
    IF v.kind = "int" THEN (IF v.v = 1 THEN <<ONE>> ELSE <<TWO>>)
    ELSE <<OPEN>> \o v.d.a.s \o <<CLOSE>>

(* str.find(pat, from): the least position, 0 for the -1 of python *)
Find(t, pat, from) ==
    LET hits == {i \in from..(Len(t) - Len(pat) + 1) :
                    SubSeq(t, i, i + Len(pat) - 1) = pat}
    IN  IF hits = {} THEN 0
        ELSE CHOOSE i \in hits : \A j \in hits : i <= j

(* str.rfind(pat): the greatest position *)
FindLast(t, pat) ==
    LET hits == {i \in 1..(Len(t) - Len(pat) + 1) :
                    SubSeq(t, i, i + Len(pat) - 1) = pat}
    IN  IF hits = {} THEN 0
        ELSE CHOOSE i \in hits : \A j \in hits : j <= i

NoCandidate == [found |-> FALSE, text |-> <<>>]

(* The candidate taken after the last occurrence of the fence *)
FencedCandidateLast(t, fence) ==
    LET start == FindLast(t, fence)
    IN  IF start = 0 THEN NoCandidate
        ELSE LET from == start + Len(fence)
                 end == Find(t, <<FENCE>>, from)
             IN  IF end = 0 THEN NoCandidate
                 ELSE [found |-> TRUE,
                       text |-> Strip(SubSeq(t, from, end - 1))]

(* Lines 251-261 (the fence marker followed by json) and 264-274 (the fence
   marker alone): the text between the first occurrence of the fence and
   the next fence marker, stripped *)
FencedCandidate(t, fence) ==
    LET start == Find(t, fence, 1)
    IN  IF start = 0 THEN NoCandidate
        ELSE LET from == start + Len(fence)
                 end == Find(t, <<FENCE>>, from)
             IN  IF end = 0 THEN NoCandidate
                 ELSE [found |-> TRUE,
                       text |-> Strip(SubSeq(t, from, end - 1))]

Parses(c) == c.found /\ JsonLoads(c.text) # JsonError

(* The extractor without lines 275-280 *)
ExtractJsonFencedOnly(t) ==
    IF t = <<>> THEN None
    ELSE LET c1 == FencedCandidate(t, <<FENCE, JSON_TAG>>)
             c2 == FencedCandidate(t, <<FENCE>>)
         IN  IF Parses(c1) THEN JsonLoads(c1.text)
             ELSE IF Parses(c2) THEN JsonLoads(c2.text)
             ELSE None

(* _extract_json_from_text *)
ExtractJsonFromText(t) ==
    IF t = <<>> THEN None
    ELSE LET c1 == FencedCandidate(t, <<FENCE, JSON_TAG>>)
             c2 == FencedCandidate(t, <<FENCE>>)
         IN  IF Parses(c1) THEN JsonLoads(c1.text)
             ELSE IF Parses(c2) THEN JsonLoads(c2.text)
             ELSE IF JsonLoads(t) # JsonError THEN JsonLoads(t)
             ELSE None

(* Output texts: every text of at most MaxLen fragments, and the
   serialization of every payload *)
TextChars == {FENCE, JSON_TAG, OTHER_TAG, ONE, TWO}
PayloadChars == {FENCE, JSON_TAG, ONE, WS}
Payloads == {Dict([a |-> Str(chars)]) : chars \in SeqsUpTo(PayloadChars, MaxStr)}

InitExtract ==
    /\ pc = "extract"
    /\ input_text = <<>>
    /\ user_id \in UserIds
    /\ deck_id = NoDeck
    /\ sources = {}
    /\ NoRun
    /\ agent_call = None
    /\ doc_call = None
    /\ repair_call = None
    /\ runs = None
    /\ \/ \E t \in SeqsUpTo(TextChars, MaxLen) :
             extract_call = [text |-> t, payload |-> None, out |-> Pending]
       \/ \E p \in Payloads :
             extract_call = [text |-> JsonDumps(p), payload |-> p,
                             out |-> Pending]

Extract ==
    /\ pc = "extract"
    /\ extract_call.out = Pending
    /\ extract_call' =
          [extract_call EXCEPT !.out = ExtractJsonFromText(extract_call.text)]
    /\ UNCHANGED <<pc, input_text, user_id, deck_id, status, agent_call,
                   doc_call, repair_call, runs, inflight, calls, failed, usage, locals1, locals2,
                   source_id, tables, log_fault, raised, result>>

NextExtract == Extract

SpecExtract == InitExtract /\ [][NextExtract]_vars

(* ---- the fenced blocks of a text, as the specification reads them ---- *)
(* The fence at position i opens a block when a later fence closes it *)
Closes(t, i, c) ==
    /\ c > i
    /\ c <= Len(t)
    /\ t[c] = FENCE
    /\ \A j \in (i + 1)..(c - 1) : t[j] # FENCE

IsTag(x) == x \in {JSON_TAG, OTHER_TAG}

(* The positions of the fence markers followed by the tag json, and of all
   fence markers *)
JsonFences(t) ==
    {i \in 1..Len(t) : t[i] = FENCE /\ i < Len(t) /\ t[i + 1] = JSON_TAG}

AnyFences(t) == {i \in 1..Len(t) : t[i] = FENCE}

(* The first of the given fence positions, and the content of its block
   when it is closed: the text after the fence (after its tag, when
   skip_tag) up to the closing fence *)
FirstBlock(t, marks, skip_tag) ==
    LET opens == {i \in marks : \A j \in marks : i <= j}
    IN  IF opens = {} THEN NoCandidate
        ELSE LET i == CHOOSE i \in opens : TRUE
                 from == IF skip_tag /\ i < Len(t) /\ IsTag(t[i + 1])
                         THEN i + 2 ELSE i + 1
             IN  IF \E c \in from..Len(t) : Closes(t, from - 1, c)
                 THEN LET c == CHOOSE c \in from..Len(t) :
                                   Closes(t, from - 1, c)
                      IN  [found |-> TRUE, text |-> SubSeq(t, from, c - 1)]
                 ELSE NoCandidate

FirstOf(c1, c2, t) ==
    IF Parses(c1) THEN JsonLoads(c1.text)
    ELSE IF Parses(c2) THEN JsonLoads(c2.text)
    ELSE IF t # <<>> /\ JsonLoads(t) # JsonError THEN JsonLoads(t)
    ELSE None

(* C15 as stated: the value is the first that parses of the content of the
   first block tagged json, the content of the first block of any kind
   (its language tag is not content), the whole text; None when none
   parses. *)
C15_FirstBlocksThenWholeText ==
    (extract_call.out # Pending)
        => LET t == extract_call.text
           IN  extract_call.out
                   = FirstOf(FirstBlock(t, JsonFences(t), TRUE),
                             FirstBlock(t, AnyFences(t), TRUE), t)

(* C15 amended: as stated, except that the second strategy parses the text
   between the first fence marker of the text and the next one with the
   language tag of the block included, so it can succeed only for a first
   block that carries no tag. *)
C15_FirstFencesThenWholeText ==
    (extract_call.out # Pending)
        => LET t == extract_call.text
           IN  extract_call.out
                   = FirstOf(FirstBlock(t, JsonFences(t), TRUE),
                             FirstBlock(t, AnyFences(t), FALSE), t)

(* A first block tagged python whose content is the JSON text 1: nothing is
   extracted *)
C15_Witness ==
    /\ extract_call.text = <<FENCE, OTHER_TAG, ONE, FENCE>>
    /\ extract_call.out = None

(* C16 as stated: the extractor applied to the serialization of a payload
   returns the payload. *)
C16_RoundTrip ==
    (extract_call.out # Pending /\ extract_call.payload # None)
        => extract_call.out = extract_call.payload

NumFences(t) == Cardinality({i \in 1..Len(t) : t[i] = FENCE})

(* C16 amended: the round trip holds for every payload whose serialization
   holds fewer than two code-fence markers. *)
C16_RoundTripWithoutFencedSpan ==
    (/\ extract_call.out # Pending
     /\ extract_call.payload # None
     /\ NumFences(extract_call.text) < 2)
        => extract_call.out = extract_call.payload

(* A payload whose string holds one fence marker and the tag json came back
   unchanged *)
C16_Witness ==
    /\ extract_call.payload = Dict([a |-> Str(<<FENCE, JSON_TAG, WS, ONE>>)])
    /\ extract_call.out = extract_call.payload

(* ============ persistence over runs executed one after another ========= *)
MaxDecks == 2
MaxRows == 2

PersistUsers == {"u1", "u2"}

InitPersist ==
    /\ pc = "idle"
    /\ input_text = <<>>
    /\ user_id = "u1"
    /\ deck_id = NoDeck
    /\ sources = {}
    /\ NoRun
    /\ agent_call = None
    /\ extract_call = None
    /\ doc_call = None
    /\ repair_call = None
    /\ runs = None

(* A run is called and reaches line 340 with the cards its last review
   accepted; the stages before line 340 write to none of the three tables *)
StartRun ==
    /\ pc \in {"idle", "done", "raised"}
    /\ Cardinality(decks) < MaxDecks
    /\ Len(flashcards) < MaxRows
    /\ input_text' \in Texts
    /\ user_id' \in PersistUsers
    /\ deck_id' \in DeckIds
    /\ \E n \in 0..1 : accepted_cards' = [i \in 1..n |-> Accepted(1, i)]
    /\ source_id' = 0
    /\ raised' = NoErr
    /\ result' = None
    /\ pc' = "source"
    /\ UNCHANGED <<status, units, inflight, calls, failed, usage, locals1,
                   pass, seg, candidate_cards, improved_candidates, qa_out,
                   qa_out2, rejected_count, feedback, tables, log_fault>>

NextPersist ==
    \/ StartRun
    \/ SourceStep
    \/ DeckStep
    \/ CardsStep

SpecPersist == InitPersist /\ [][NextPersist]_vars

(* C17: the sources table holds at most one row per owner and hash and one
   row per id, and the source a run uses past line 356 is the row of the
   run's owner and of the hash of the run's text. *)
C17_OneSourcePerOwnerAndHash ==
    /\ \A r1, r2 \in sources :
          (r1.id = r2.id \/ (r1.user_id = r2.user_id /\ r1.hash = r2.hash))
              => r1 = r2
    /\ pc \in {"deck", "cards", "done"}
          => \E r \in sources :
                /\ r.id = source_id
                /\ r.user_id = user_id
                /\ r.hash = Sha256(input_text)

(* Two runs that created a deck each have used the same, single source *)
C17_Witness ==
    /\ pc = "done"
    /\ Cardinality(sources) = 1
    /\ Cardinality(decks) = 2
    /\ \A d \in decks : d.source_id = source_id

(* C18: the deck step keeps a supplied deck id and inserts no deck, and
   otherwise inserts one deck tied to the run's source and takes its id; a
   completed run returns the deck id and every card it inserted refers to
   it. *)
C18_DeckStepKeepsOrCreates ==
    (pc = "deck" /\ pc' = "cards")
        => IF deck_id # NoDeck
           THEN deck_id' = deck_id /\ decks' = decks
           ELSE /\ deck_id'.kind = "created"
                /\ \A d \in decks : d.id # deck_id'.id
                /\ decks' = decks \cup
                       {[id |-> deck_id'.id, user_id |-> user_id,
                         source_id |-> source_id]}

C18_DeckUsedByRun ==
    (pc = "done")
        => /\ result.deck_id = deck_id
           /\ deck_id # NoDeck
           /\ \A i \in 1..Len(flashcards) : flashcards[i].deck_id = deck_id
           /\ Cardinality(decks) <= 1

C18_SuppliedDeckReusedElseCreated ==
    []C18_DeckUsedByRun /\ [][C18_DeckStepKeepsOrCreates]_vars

(* A run without a deck id inserted cards into the deck it created *)
C18_Witness ==
    /\ pc = "done"
    /\ deck_id.kind = "created"
    /\ Cardinality(decks) = 1
    /\ Len(flashcards) > 0

(* C19: a completed run returns as inserted_count the number of cards its
   last review accepted, and as accepted_preview the first 10 of them. *)
C19_InsertedCountIsLastAccepted ==
    (pc = "done")
        => /\ result.inserted_count = Len(ReviewAccepted(LastReview))
           /\ result.accepted_preview
                  = Take(ReviewAccepted(LastReview), PreviewSize)
           /\ Len(result.accepted_preview) <= PreviewSize

(* C20: a run that has raised has left the three tables as they were. *)
C20_AbortLeavesNothingPersisted ==
    (pc = "raised") => NothingWritten

(* ===================== the accepted set of a run ====================== *)
Lower(ch) == IF ch = "C" THEN "c" ELSE ch
IsPunct(ch) == ch = "?"

(* A front text lowercased and with its punctuation removed *)
NormalizeFront(f) ==
    SelectSeq([i \in 1..Len(f) |-> Lower(f[i])], LAMBDA ch : ~IsPunct(ch))

DistinctFronts(fronts) ==
    \A i, j \in 1..Len(fronts) :
        i # j => NormalizeFront(fronts[i]) # NormalizeFront(fronts[j])

(* C21: in a completed run no two of the card rows inserted, and no two of
   the cards returned in accepted_preview, have equal normalized fronts. *)
C21_NoTwoAcceptedWithEqualFront ==
    (pc = "done")
        => /\ DistinctFronts([i \in 1..Len(flashcards) |-> flashcards[i].front])
           /\ DistinctFronts([i \in 1..Len(result.accepted_preview) |->
                                 Get(result.accepted_preview[i], "front", <<>>)])

(* C22 as stated: with zero candidates the ratio is rejected_count / 1, so
   the regeneration pass is performed if and only if the first review
   reports a rejected count of at least 1. *)
C22_ZeroCandidatesRatioOverOne ==
    (ReportsRejected(qa_out) /\ Len(candidate_cards) = 0)
        => ((pass = 2) <=> (qa_out.d.summary.d.rejected_count.v >= 1))

(* C22 amended: with zero candidates no regeneration pass is performed,
   whatever the first review returns: no second generator request per
   segment and no second review request are issued. *)
C22_ZeroCandidatesNeverRegenerate ==
    (qa_out # None /\ Len(candidate_cards) = 0)
        => /\ pass = 1
           /\ Cardinality(RequestsOf(ROLE_GENERATOR)) = NumSegs
           /\ Cardinality(RequestsOf(ROLE_QA)) = 1

(* No candidate, a first review that reports the largest rejected count, and
   a run completed without regeneration *)
C22_Witness ==
    /\ pc = "done"
    /\ Len(candidate_cards) = 0
    /\ ReportsRejected(qa_out)
    /\ qa_out.d.summary.d.rejected_count.v = MaxRejected
    /\ pass = 1

(* ------------------ order of generation and of the cards --------------- *)
GenRequests ==
    SelectSeq(calls, LAMBDA c : c.role = ROLE_GENERATOR)

(* The segment the k-th generator request of the run is about *)
SegmentOfRequest(k) == chunks.items[((k - 1) % NumSegs) + 1]

(* Cards in the order of the generator calls that returned them and, within
   a call, in the order the call returned them (the n-th card of a call is
   tagged n) *)
InReturnOrder(cards) ==
    \A i, j \in 1..Len(cards) :
        i < j => \/ cards[i].call < cards[j].call
                 \/ cards[i].call = cards[j].call /\ cards[i].n < cards[j].n

PassList == IF pass = 1 THEN candidate_cards ELSE improved_candidates

(* In every state: the k-th generator request of a pass is about the k-th
   segment of the list, and each pass's list holds cards of that pass only,
   in the order of the calls and of the cards within a call *)
C23_RequestsAndCardsInOrder ==
    /\ \A k \in 1..Len(GenRequests) :
          /\ GenRequests[k].message.chunk_index
                 = Get(SegmentOfRequest(k).d, "index", 0)
          /\ GenRequests[k].message.text
                 = Get(SegmentOfRequest(k).d, "text", <<>>)
          /\ (k <= NumSegs)
                 <=> ("content_instructions" \in DOMAIN GenRequests[k].message)
    /\ \A i, j \in 1..NumSegs :
          i < j => Get(chunks.items[i].d, "index", 0)
                       < Get(chunks.items[j].d, "index", 0)
    /\ InReturnOrder(candidate_cards)
    /\ InReturnOrder(improved_candidates)
    /\ \A i \in 1..Len(candidate_cards) : candidate_cards[i].call <= NumSegs
    /\ \A i \in 1..Len(improved_candidates) :
          improved_candidates[i].call > NumSegs

(* In every step in which a generator call returns: the list of the pass
   keeps its cards as a prefix and gains, after them, cards of that call *)
C23_ReturnAppends ==
    (pc = "generate_wait" /\ pc' \in {"generate", "review"})
        => LET old == PassList
               new == IF pass = 1 THEN candidate_cards'
                      ELSE improved_candidates'
           IN  /\ Len(new) >= Len(old)
               /\ SubSeq(new, 1, Len(old)) = old
               /\ \A i \in (Len(old) + 1)..Len(new) :
                     new[i].call = GenCallsIssued
               /\ seg' = seg + 1
               /\ Len(GenRequests) = (pass - 1) * NumSegs + seg

(* C23: in each generation pass the Card-Generator is invoked on the
   segments in the order of the segment list, which is increasing index
   order, and the candidate list of the pass is the concatenation of the
   cards each call returned, in call order and, within a call, in the order
   returned. *)
C23_SegmentOrderConcatenation ==
    []C23_RequestsAndCardsInOrder /\ [][C23_ReturnAppends]_vars

(* Both passes over two segments have collected the cards of both segments *)
C23_Witness ==
    /\ pc = "review"
    /\ pass = 2
    /\ NumSegs = 2
    /\ Len(candidate_cards) = 2 * MaxCards
    /\ Len(improved_candidates) = 2 * MaxCards
    /\ improved_candidates[1].call < improved_candidates[2 * MaxCards].call

(* ===================== extract_text_from_binary ======================= *)
MaxDocs == 2

RuntimeError(what) == [kind |-> "RuntimeError", what |-> what]
KeyError(key) == [kind |-> "KeyError", key |-> key]

ArtifactKeys == {"markdown", "json", "text"}

(* The artifacts dict of a document: any subset of the three keys, each
   with the value None, the empty string or a text of its own *)
ArtifactDicts ==
    UNION {{Dict([k \in S |-> IF k \in N THEN None
                              ELSE IF k \in E THEN Str(<<>>)
                              ELSE Str(<<k>>)]) :
               N \in SUBSET S, E \in SUBSET S} :
           S \in SUBSET ArtifactKeys}

(* The first document of a manifest: without the key artifacts, with None
   under it, or with an artifacts dict *)
FirstDocs ==
    {Dict([input_name |-> "f"]), Dict([input_name |-> "f", artifacts |-> None])}
    \cup {Dict([input_name |-> "f", artifacts |-> a]) : a \in ArtifactDicts}

OtherDoc ==
    Dict([input_name |-> "g",
          artifacts |-> Dict([k \in ArtifactKeys |-> Str(<<"other", k>>)])])

(* What extract_manifest_from_binary gives: it raises (fail), or returns a
   dict that has the key documents (lines 199-202) *)
Manifests ==
    {[fail |-> TRUE, documents |-> None],
     [fail |-> FALSE, documents |-> None],
     [fail |-> FALSE, documents |-> List(<<>>)]}
    \cup {[fail |-> FALSE,
            documents |-> List([i \in 1..n |-> IF i = 1 THEN d ELSE OtherDoc])] :
              d \in FirstDocs, n \in 1..MaxDocs}

(* extract_text_from_binary, lines 37-51 *)
ExtractTextFromBinary(m) ==
    IF m.fail THEN [exc |-> RuntimeError("invoke"), ret |-> None]
    ELSE IF ~Truthy(m.documents)
    THEN [exc |-> RuntimeError("no documents"), ret |-> None]
    ELSE LET a == Get(m.documents.items[1].d, "artifacts", None)
             artifacts == IF Truthy(a) THEN a ELSE EmptyDict
         IN  IF "markdown" \notin DOMAIN artifacts.d
             THEN [exc |-> KeyError("markdown"), ret |-> None]
             ELSE IF "json" \notin DOMAIN artifacts.d
             THEN [exc |-> KeyError("json"), ret |-> None]
             ELSE IF "text" \notin DOMAIN artifacts.d
             THEN [exc |-> KeyError("text"), ret |-> None]
             ELSE [exc |-> NoErr, ret |-> artifacts.d.markdown]

InitDoc ==
    /\ pc = "doc"
    /\ input_text = <<>>
    /\ user_id \in UserIds
    /\ deck_id = NoDeck
    /\ sources = {}
    /\ NoRun
    /\ agent_call = None
    /\ extract_call = None
    /\ repair_call = None
    /\ runs = None
    /\ \E m \in Manifests : doc_call = [manifest |-> m, out |-> Pending]

ExtractText ==
    /\ pc = "doc"
    /\ doc_call.out = Pending
    /\ doc_call' =
          [doc_call EXCEPT !.out = ExtractTextFromBinary(doc_call.manifest)]
    /\ UNCHANGED <<pc, input_text, user_id, deck_id, status, agent_call,
                   extract_call, repair_call, runs, inflight, calls, failed,
                   usage, locals1, locals2, source_id, tables, log_fault,
                   raised, result>>

NextDoc == ExtractText

SpecDoc == InitDoc /\ [][NextDoc]_vars

(* The artifact under key k of the first document is there: a non-empty
   text *)
Available(m, k) ==
    /\ ~m.fail
    /\ Truthy(m.documents)
    /\ LET doc == m.documents.items[1].d
       IN  /\ "artifacts" \in DOMAIN doc
           /\ IsDict(doc.artifacts)
           /\ k \in DOMAIN doc.artifacts.d
           /\ doc.artifacts.d[k].kind = "str"
           /\ doc.artifacts.d[k].s # <<>>

ArtifactOf(m, k) == m.documents.items[1].d.artifacts.d[k]

(* C24: the call returns the markdown artifact of the first document when
   it is available, else its text artifact when that is available, and
   otherwise (no document, no accessible artifact, failed invocation) it
   raises RuntimeError with a message; it never returns None or the empty
   string. *)
C24_MarkdownElseTextElseError ==
    (doc_call.out # Pending)
        => LET m == doc_call.manifest
               out == doc_call.out
           IN  /\ IF Available(m, "markdown")
                  THEN out = [exc |-> NoErr, ret |-> ArtifactOf(m, "markdown")]
                  ELSE IF Available(m, "text")
                  THEN out = [exc |-> NoErr, ret |-> ArtifactOf(m, "text")]
                  ELSE out.exc.kind = "RuntimeError"
               /\ out.exc = NoErr => out.ret \notin {None, Str(<<>>)}

(* =================== what the reviewer is asked about ================= *)
(* The review request at position i of calls is the first of the run *)
FirstReview(i) == \A j \in RequestsOf(ROLE_QA) : i <= j

(* C25: every review request, of the first pass and of the regeneration
   pass, carries the pooled candidate list of its pass and the source
   text. *)
C25_ReviewGetsCandidatesAndSource ==
    \A i \in RequestsOf(ROLE_QA) :
        /\ calls[i].message.cards
               = IF FirstReview(i) THEN candidate_cards
                 ELSE improved_candidates
        /\ "source_text" \in DOMAIN calls[i].message
        /\ calls[i].message.source_text = input_text

(* ================= malformed outputs of the stages ==================== *)
(* Both tasks of step 1 returned without raising *)
Step1Returned ==
    /\ Joined
    /\ chunk_task.exc = NoErr
    /\ outline_task.exc = NoErr

(* C26: once both tasks of step 1 have returned without raising, whatever
   the Segmenter returned, the run has not raised before generation: the
   segments are a list of segment objects, the returned one or the
   synthetic whole-document segment, and the first generator request is
   issued. *)
C26_SegmenterOutputNeverAborts ==
    Step1Returned
        => /\ Iterable(chunks)
           /\ \/ chunks = FallbackChunks(input_text)
              \/ /\ IsDict(chunk_task.ret)
                 /\ "chunks" \in DOMAIN chunk_task.ret.d
                 /\ chunks = chunk_task.ret.d.chunks
           /\ (pc = "generate" \/ RequestsOf(ROLE_GENERATOR) # {})

(* C27: a first review that returned an object never makes the run raise
   while its fields are read (lines 288-303), and its accepted list is the
   accepted list of the pass. *)
C27_MalformedReviewNeverAborts ==
    IsDict(qa_out)
        => /\ raised \notin {AttributeError("get"), ValueError("int")}
           /\ (pass = 1 => accepted_cards = ReviewAccepted(qa_out))

(* ========= lines 340-356 of runs whose requests interleave ============ *)
(* Each run of _run_pipeline is its own invocation of the handler; the
   select of line 344 and the insert of lines 348-354 are two requests to
   the table, and requests of different runs reach it in any order. *)
NumRuns == 2

RaceRuns == 1..NumRuns

InitRace ==
    /\ pc = "race"
    /\ input_text = <<>>
    /\ user_id \in UserIds
    /\ deck_id = NoDeck
    /\ sources = {}
    /\ NoRun
    /\ agent_call = None
    /\ extract_call = None
    /\ doc_call = None
    /\ repair_call = None
    /\ runs \in [RaceRuns ->
                    {[pc |-> "select", user_id |-> u, input_text |-> t,
                      source_id |-> 0, raised |-> NoErr] :
                        u \in PersistUsers, t \in Texts}]

(* Line 344-346 of run r: the select, and the reuse of the row it finds *)
RaceSelect(r) ==
    /\ pc = "race"
    /\ runs[r].pc = "select"
    /\ LET existing == ExistingSources(sources, runs[r].user_id,
                                       Sha256(runs[r].input_text))
       IN  \E ok \in BOOLEAN :
             IF ~ok THEN
                 runs' = [runs EXCEPT ![r].pc = "raised",
                                      ![r].raised = DbError("flashcard_sources")]
             ELSE IF existing # {} THEN
                 \E row \in existing :
                    runs' = [runs EXCEPT ![r].pc = "deck",
                                         ![r].source_id = row.id]
             ELSE
                 runs' = [runs EXCEPT ![r].pc = "insert"]
    /\ UNCHANGED <<pc, input_text, user_id, deck_id, status, agent_call,
                   extract_call, doc_call, repair_call, inflight, calls,
                   failed, usage, locals1, locals2, source_id, tables,
                   log_fault, raised, result>>

(* Lines 347-356 of run r: the insert, after a select that found no row *)
RaceInsert(r) ==
    /\ pc = "race"
    /\ runs[r].pc = "insert"
    /\ \E ok \in BOOLEAN :
         IF ~ok THEN
             /\ runs' = [runs EXCEPT ![r].pc = "raised",
                                     ![r].raised = DbError("flashcard_sources")]
             /\ UNCHANGED sources
         ELSE
             /\ sources' = sources \cup
                    {[id |-> MaxId(sources) + 1,
                      user_id |-> runs[r].user_id,
                      hash |-> Sha256(runs[r].input_text)]}
             /\ runs' = [runs EXCEPT ![r].pc = "deck",
                                     ![r].source_id = MaxId(sources) + 1]
    /\ UNCHANGED <<pc, input_text, user_id, deck_id, status, agent_call,
                   extract_call, doc_call, repair_call, inflight, calls,
                   failed, usage, locals1, locals2, source_id, decks,
                   flashcards, log_fault, raised, result>>

NextRace == \E r \in RaceRuns : RaceSelect(r) \/ RaceInsert(r)

SpecRace == InitRace /\ [][NextRace]_vars

(* Runs a and b are for the same owner and the same text *)
SameKey(a, b) ==
    /\ runs[a].user_id = runs[b].user_id
    /\ runs[a].input_text = runs[b].input_text

(* C28: whatever the order of the select and insert requests of the runs,
   the sources table holds at most one row per owner and hash, and two runs
   for the same owner and text that are past line 356 use the same source
   id. *)
C28_ConcurrentRunsShareOneSource ==
    /\ \A r1, r2 \in sources :
          (r1.user_id = r2.user_id /\ r1.hash = r2.hash) => r1 = r2
    /\ \A a, b \in RaceRuns :
          (SameKey(a, b) /\ runs[a].pc = "deck" /\ runs[b].pc = "deck")
              => runs[a].source_id = runs[b].source_id

(* ========================= basic_json_repair ========================== *)
(* A text is a sequence of fragments: the start of an object with one key
   (opening brace, the key in straight quotes, the colon), a straight
   double quote, the left and right smart double quotes, the right smart
   single quote, a straight apostrophe, a byte-order mark, a comma, a
   closing brace, a closing bracket, a letter, and white space (WS). *)
OBJ == "obj"
QUOTE == "dquote"
LDQUO == "ldquo"
RDQUO == "rdquo"
RSQUO == "rsquo"
APOS == "apos"
BOM == "bom"
COMMA == "comma"
RBRACE == "rbrace"
RBRACKET == "rbracket"
LETTER == "x"

MaxBody == 3

(* json.loads on these texts: an object whose one value is a string; a
   string ends at the first straight double quote (no escapes occur) and
   may hold any other fragment; white space is allowed between tokens *)
RepairJsonLoads(t) ==
    LET core == Strip(t)
        quotes == {i \in 1..Len(core) : core[i] = QUOTE}
    IN  IF /\ Len(core) >= 4
           /\ core[1] = OBJ
           /\ core[Len(core)] = RBRACE
           /\ Cardinality(quotes) = 2
        THEN LET q1 == CHOOSE i \in quotes : \A j \in quotes : i <= j
                 q2 == CHOOSE i \in quotes : \A j \in quotes : j <= i
             IN  IF /\ \A i \in 2..(q1 - 1) : core[i] = WS
                    /\ \A i \in (q2 + 1)..(Len(core) - 1) : core[i] = WS
                    /\ \A i \in (q1 + 1)..(q2 - 1) : core[i] # OBJ
                 THEN Dict([a |-> Str(SubSeq(core, q1 + 1, q2 - 1))])
                 ELSE JsonError
        ELSE JsonError

(* Line 215: the three str.replace calls on the smart quotes *)
StraightenQuotes(t) ==
    [i \in 1..Len(t) |->
        IF t[i] \in {LDQUO, RDQUO} THEN QUOTE
        ELSE IF t[i] = RSQUO THEN APOS
        ELSE t[i]]

(* Line 216 *)
DropBom(t) == SelectSeq(t, LAMBDA ch : ch # BOM)

(* The length of the white space that starts at position i *)
RECURSIVE SpaceRun(_, _)
SpaceRun(t, i) ==
    IF i <= Len(t) /\ t[i] = WS THEN 1 + SpaceRun(t, i + 1) ELSE 0

(* Line 218: re.sub of a comma, white space and a closing brace or bracket
   by the brace or bracket, leftmost matches first *)
RECURSIVE DropTrailingCommas(_)
DropTrailingCommas(t) ==
    IF t = <<>> THEN <<>>
    ELSE LET k == 2 + SpaceRun(t, 2)
         IN  IF Head(t) = COMMA /\ k <= Len(t) /\ t[k] \in {RBRACE, RBRACKET}
             THEN <<t[k]>> \o DropTrailingCommas(SubSeq(t, k + 1, Len(t)))
             ELSE <<Head(t)>> \o DropTrailingCommas(Tail(t))

(* basic_json_repair, lines 213-223 *)
BasicJsonRepair(t) ==
    LET repaired == DropTrailingCommas(DropBom(StraightenQuotes(t)))
    IN  IF RepairJsonLoads(repaired) # JsonError THEN Str(repaired)
        ELSE None

(* The fragments of the string value of an input that parses *)
BodyChars == {LDQUO, RDQUO, RSQUO, BOM, COMMA, RBRACE, LETTER, WS}

(* Texts that parse: an object whose value is any string of at most MaxBody
   fragments *)
ValidTexts ==
    {<<OBJ, QUOTE>> \o body \o <<QUOTE, RBRACE>> :
        body \in SeqsUpTo(BodyChars, MaxBody)}

(* Texts that do not parse: a trailing comma, a leading byte-order mark,
   smart quotes around the value, a value that is not closed *)
DefectiveTexts ==
    {<<OBJ, QUOTE, LETTER, QUOTE, COMMA, RBRACE>>,
     <<OBJ, QUOTE, LETTER, QUOTE, COMMA, WS, RBRACE>>,
     <<BOM, OBJ, QUOTE, LETTER, QUOTE, RBRACE>>,
     <<OBJ, LDQUO, LETTER, RDQUO, RBRACE>>,
     <<OBJ, QUOTE, LETTER, RBRACE>>}

InitRepair ==
    /\ pc = "repair"
    /\ input_text = <<>>
    /\ user_id \in UserIds
    /\ deck_id = NoDeck
    /\ sources = {}
    /\ NoRun
    /\ agent_call = None
    /\ extract_call = None
    /\ doc_call = None
    /\ runs = None
    /\ \E t \in ValidTexts \cup DefectiveTexts :
          repair_call = [text |-> t, out |-> Pending]

Repair ==
    /\ pc = "repair"
    /\ repair_call.out = Pending
    /\ repair_call' =
          [repair_call EXCEPT !.out = BasicJsonRepair(repair_call.text)]
    /\ UNCHANGED <<pc, input_text, user_id, deck_id, status, agent_call,
                   extract_call, doc_call, runs, inflight, calls, failed,
                   usage, locals1, locals2, source_id, tables, log_fault,
                   raised, result>>

NextRepair == Repair

SpecRepair == InitRepair /\ [][NextRepair]_vars

(* C29: for a text that parses, the repair returns a text, and that text
   parses to the same value. *)
C29_RepairKeepsValidJson ==
    (repair_call.out # Pending
        /\ RepairJsonLoads(repair_call.text) # JsonError)
        => /\ repair_call.out # None
           /\ RepairJsonLoads(repair_call.out.s)
                  = RepairJsonLoads(repair_call.text)

(* ================== when the three tables are written ================= *)
(* The last review of the run has returned and the run goes on to line 340 *)
LastReviewReturned ==
    /\ inflight = {}
    /\ LastReview # None
    /\ Cardinality(RequestsOf(ROLE_QA)) = pass

(* In every state: a run that is before line 340, or that raised in a
   stage, has left the three tables as they were *)
C30_StagesLeaveTables ==
    (\/ pc \notin {"deck", "cards", "done", "raised"}
     \/ pc = "raised" /\ raised.kind # "DbError")
        => NothingWritten

(* In every step: a table changes only in the persistence steps, after the
   last review has returned *)
C30_WritesFollowLastReview ==
    (tables' # tables)
        => /\ pc \in {"source", "deck", "cards"}
           /\ LastReviewReturned

(* C30: no source, deck or card row is written before the last review of
   the run has returned, so a run that fails in segmentation, outlining,
   generation or review leaves the three tables unchanged; only usage rows
   are appended. *)
C30_NoWriteBeforeLastReview ==
    []C30_StagesLeaveTables /\ [][C30_WritesFollowLastReview]_vars

(* The second review's backend call failed: the run raised with usage rows
   written and the tables untouched *)
C30_Witness ==
    /\ pc = "raised"
    /\ raised = BackendError(ROLE_QA)
    /\ pass = 2
    /\ Len(usage) > 0
    /\ NothingWritten

====
